---------------------------- MODULE Spec2Model ----------------------------
(***************************************************************************)
(* Model of src/game.py: the combatants (Character, Hero, Enemy), the      *)
(* battle loop run_battle, and the session main() with its interludes      *)
(* (loot roll, random_event, camp, open_shop, upgrade).                    *)
(*                                                                         *)
(* Rendering is left out except for its place in the loop.  The list       *)
(* `effects` of run_battle is only appended to by the battle logic and     *)
(* only read (and expired) by the renderer; the model keeps, in            *)
(* `appended`, the entries the loop iteration in progress has appended.    *)
(***************************************************************************)
EXTENDS Integers, Sequences, FiniteSets

VARIABLES
    stage,      \* position of main(): "battle1", "event", ..., "boss", "end";
                \* "call" for a direct call run_battle(hero, enemies),
                \* "shopcall" for a direct call open_shop(hero)
    hero,       \* the Hero object: cls, hp, max_hp, attack, defense, gold
    enemies,    \* the list of Enemy objects handed to run_battle
    pc,         \* position inside run_battle ("idle" outside of it)
    action,     \* run_battle's local `action`
    idx,        \* index of the `for enemy in enemies` loop (line 372)
    result,     \* value returned by run_battle (meaningful when pc = "returned")
    quit,       \* TRUE iff run_battle returned through the QUIT branch (line 350)
    appended,   \* entries appended to `effects` by the iteration in progress
    attacked,   \* indices of the enemies whose attack_action ran in this iteration
    bossActions \* hero actions resolved so far in the session's boss encounter

vars ==
    <<stage, hero, enemies, pc, action, idx, result, quit, appended, attacked,
      bossActions>>

\* ------------------------------------------------------------------------
\* Bounds of the model

\* number of pygame events delivered to one frame of run_battle
MaxEvents == 2

\* number of hero actions followed inside the boss encounter of a session
\* (the encounters entered by a direct call are followed to their end)
MaxBossActions == 1

\* random.random() is drawn in tenths: d stands for a value in [d/10, (d+1)/10)
DrawTenths == 10

Draws == 0 .. (DrawTenths - 1)

\* ------------------------------------------------------------------------
\* Program constants

StrongHitTenths == 7    \* random.random() < 0.7
CritTenths == 3         \* random.random() < 0.3
ChestLuckTenths == 5    \* random.random() < 0.5 (chest)
LootTenths == 5         \* random.random() < 0.5 (loot roll)

None == "None"

Max(a, b) == IF a >= b THEN a ELSE b
Min(a, b) == IF a <= b THEN a ELSE b

\* ------------------------------------------------------------------------
\* Character

Character(hp, attack, defense) ==
    [hp |-> hp, max_hp |-> hp, attack |-> attack, defense |-> defense]

NewHero(cls, hp, attack, defense, gold) ==
    [cls |-> cls, hp |-> hp, max_hp |-> hp, attack |-> attack,
     defense |-> defense, gold |-> gold]

Warrior == NewHero("Warrior", 120, 25, 8, 20)
Mage    == NewHero("Mage", 80, 18, 3, 20)
Rogue   == NewHero("Rogue", 90, 20, 4, 20)

is_alive(c) == c.hp > 0

take_damage(c, amount) == [c EXCEPT !.hp = Max(0, c.hp - amount)]

\* mutant: the heal is not clamped at max_hp
heal_unclamped(c, amount) == [c EXCEPT !.hp = c.hp + amount]

heal(c, amount) == [c EXCEPT !.hp = Min(c.max_hp, c.hp + amount)]

\* ------------------------------------------------------------------------
\* Entries of `effects`: the text kind, the combatant at whose position the
\* text floats (0 = the hero, j = enemies[j]) and the number shown.

Entry(kind, at, amount) == [kind |-> kind, at |-> at, amount |-> amount]

\* ------------------------------------------------------------------------
\* Hero actions.  Each returns the target after the action and the entry
\* appended; d is the random draw (in tenths), j the target's index.

\* mutant: the damage has no floor of 1
AttackDamageNoFloor(attacker, target) == Max(0, attacker.attack - target.defense)

\* damage = max(1, self.attack - target.defense) (lines 148 and 194)
AttackDamage(attacker, target) == Max(1, attacker.attack - target.defense)

\* mutant: the damage of a normal attack is attack - defense, without the floor
normal_attack_raw(h, target, j, d) ==
    LET damage == h.attack - target.defense
    IN  IF h.cls = "Rogue" /\ d < CritTenths
        THEN [target |-> take_damage(target, damage * 2),
              entry  |-> Entry("crit", j, damage * 2)]
        ELSE [target |-> take_damage(target, damage),
              entry  |-> Entry("hit", j, damage)]

\* mutant: the critical strike is not restricted to the Rogue
normal_attack_anycrit(h, target, j, d) ==
    LET damage == AttackDamage(h, target)
    IN  IF d < CritTenths
        THEN [target |-> take_damage(target, damage * 2),
              entry  |-> Entry("crit", j, damage * 2)]
        ELSE [target |-> take_damage(target, damage),
              entry  |-> Entry("hit", j, damage)]

normal_attack(h, target, j, d) ==
    LET damage == AttackDamage(h, target)
    IN  IF h.cls = "Rogue" /\ d < CritTenths
        THEN [target |-> take_damage(target, damage * 2),
              entry  |-> Entry("crit", j, damage * 2)]
        ELSE [target |-> take_damage(target, damage),
              entry  |-> Entry("hit", j, damage)]

\* mutant: every class has the multiplier 2
StrongBaseFlat(h) == h.attack * 2

StrongBase(h) ==
    IF h.cls = "Mage" THEN (h.attack * 5) \div 2 ELSE h.attack * 2

\* mutant: take_damage is called after the if, so a miss still deals the floor
strong_attack_graze(h, target, j, d) ==
    IF d < StrongHitTenths
    THEN LET damage == Max(1, StrongBase(h) - target.defense)
         IN  [target |-> take_damage(target, damage),
              entry  |-> Entry("hit", j, damage)]
    ELSE [target |-> take_damage(target, 1), entry |-> Entry("miss", j, 0)]

strong_attack(h, target, j, d) ==
    IF d < StrongHitTenths
    THEN LET damage == Max(1, StrongBase(h) - target.defense)
         IN  [target |-> take_damage(target, damage),
              entry  |-> Entry("hit", j, damage)]
    ELSE [target |-> target, entry |-> Entry("miss", j, 0)]

\* mutant: the amount is taken from hp instead of max_hp
HealAmountOfHp(h) == (h.hp * 3) \div 10

HealAmount(h) == (h.max_hp * 3) \div 10

heal_action(h) ==
    [hero |-> heal(h, HealAmount(h)), entry |-> Entry("heal", 0, HealAmount(h))]

\* mutant: the hero's defense is not subtracted
attack_action_nodef(e, h) ==
    [target |-> take_damage(h, e.attack),
     entry  |-> Entry("hit", 0, e.attack)]

\* Enemy.attack_action: the hero after the attack and the entry appended
attack_action(e, h) ==
    [target |-> take_damage(h, AttackDamage(e, h)),
     entry  |-> Entry("hit", 0, AttackDamage(e, h))]


\* ------------------------------------------------------------------------
\* run_battle

\* the loop condition of line 347
LoopCond(h, es) == is_alive(h) /\ \E j \in 1 .. Len(es) : is_alive(es[j])

\* mutant: the target is the last living enemy
LastAlive(es) ==
    CHOOSE j \in 1 .. Len(es) :
        is_alive(es[j]) /\ \A k \in (j + 1) .. Len(es) : ~is_alive(es[k])

\* target = next(e for e in enemies if e.is_alive()): index of the target
FirstAlive(es) ==
    CHOOSE j \in 1 .. Len(es) :
        is_alive(es[j]) /\ \A k \in 1 .. (j - 1) : ~is_alive(es[k])

Events == {"QUIT", "attack", "strong", "heal", "other"}

EventSeqs == UNION {[1 .. n -> Events] : n \in 0 .. MaxEvents}

\* mutant: the QUIT branch returns True
QuitResultTrue == TRUE

\* value returned by the QUIT branch (line 350)
QuitResult == FALSE

\* the `for event in pygame.event.get()` loop of lines 348-357, from event k
\* on, with `act` the value of `action` so far
RECURSIVE ProcessEvents(_, _, _)
ProcessEvents(evs, k, act) ==
    IF k > Len(evs) THEN [quit |-> FALSE, action |-> act]
    ELSE IF evs[k] = "QUIT" THEN [quit |-> TRUE, action |-> act]
    ELSE IF evs[k] \in {"attack", "strong", "heal"}
         THEN ProcessEvents(evs, k + 1, evs[k])
         ELSE ProcessEvents(evs, k + 1, act)

InBattle == pc \in {"loop", "hero", "enemies", "render"}

\* One pass through lines 347-357: the loop condition holds, the frame's events
\* are processed.  A QUIT returns; a click leaves `action` set; a frame without
\* a click is drawn (lines 378-394) and the loop is back at line 347.
Poll ==
    /\ pc = "loop"
    /\ LoopCond(hero, enemies)
    /\ \E r \in {ProcessEvents(evs, 1, action) : evs \in EventSeqs} :
             \/ /\ r.quit
                /\ pc' = "returned"
                /\ result' = QuitResult
                /\ quit' = TRUE
                /\ action' = None
             \/ /\ ~r.quit
                /\ r.action # None
                /\ stage = "boss" => bossActions < MaxBossActions
                /\ pc' = "hero"
                /\ action' = r.action
                /\ UNCHANGED <<result, quit>>
             \/ /\ ~r.quit
                /\ r.action = None
                /\ UNCHANGED <<pc, action, result, quit>>
    /\ UNCHANGED <<stage, hero, enemies, idx, appended, attacked, bossActions>>

\* the count of hero actions of the boss encounter, after one more
Counted(n) == IF stage = "boss" THEN n + 1 ELSE n

\* mutant: `action` is not reset after the hero's action
Kept(act) == act

\* line 367: action = None
Consumed(act) == None

\* mutant: the defeat entry is appended for a wounded target
DefeatEntriesWounded(target, j) ==
    IF target.hp < target.max_hp THEN <<Entry("defeat", j, 0)>> ELSE <<>>

\* line 369-370: the defeat entry
DefeatEntries(target, j) ==
    IF ~is_alive(target) THEN <<Entry("defeat", j, 0)>> ELSE <<>>

\* lines 359-370 with action = "attack"
HeroNormalAttack ==
    /\ pc = "hero"
    /\ action = "attack"
    /\ LET j == FirstAlive(enemies)
       IN  \E r \in {normal_attack(hero, enemies[j], j, d) : d \in Draws} :
             /\ enemies' = [enemies EXCEPT ![j] = r.target]
             /\ appended' = appended \o <<r.entry>> \o DefeatEntries(r.target, j)
    /\ action' = Consumed(action)
    /\ pc' = "enemies"
    /\ idx' = 1
    /\ bossActions' = Counted(bossActions)
    /\ UNCHANGED <<stage, hero, result, quit, attacked>>

\* lines 359-370 with action = "strong"
HeroStrongAttack ==
    /\ pc = "hero"
    /\ action = "strong"
    /\ LET j == FirstAlive(enemies)
       IN  \E r \in {strong_attack(hero, enemies[j], j, d) : d \in Draws} :
             /\ enemies' = [enemies EXCEPT ![j] = r.target]
             /\ appended' = appended \o <<r.entry>> \o DefeatEntries(r.target, j)
    /\ action' = Consumed(action)
    /\ pc' = "enemies"
    /\ idx' = 1
    /\ bossActions' = Counted(bossActions)
    /\ UNCHANGED <<stage, hero, result, quit, attacked>>

\* lines 359-370 with action = "heal"
HeroHeal ==
    /\ pc = "hero"
    /\ action = "heal"
    /\ LET j == FirstAlive(enemies)
           r == heal_action(hero)
       IN  /\ hero' = r.hero
           /\ appended' = appended \o <<r.entry>> \o DefeatEntries(enemies[j], j)
    /\ action' = Consumed(action)
    /\ pc' = "enemies"
    /\ idx' = 1
    /\ bossActions' = Counted(bossActions)
    /\ UNCHANGED <<stage, enemies, result, quit, attacked>>

\* mutant: the enemy loop does not test is_alive
AttacksAlways(e) == TRUE

\* line 373: does the enemy of this iteration attack
Attacks(e) == is_alive(e)

\* mutant: the enemy loop has no break
BreakNever(h) == FALSE

\* lines 375-376: leave the enemy loop after this attack
Break(h) == ~is_alive(h)

\* One iteration of `for enemy in enemies` (lines 372-376); the loop ends
\* after the last enemy or at the break, and the frame is drawn next.
EnemyTurn ==
    /\ pc = "enemies"
    /\ idx \in 1 .. Len(enemies)
    /\ IF Attacks(enemies[idx])
       THEN LET r == attack_action(enemies[idx], hero)
            IN  /\ hero' = r.target
                /\ appended' = appended \o <<r.entry>>
                /\ attacked' = attacked \o <<idx>>
                /\ IF Break(r.target) \/ idx = Len(enemies)
                   THEN pc' = "render" /\ idx' = 1
                   ELSE pc' = "enemies" /\ idx' = idx + 1
       ELSE /\ UNCHANGED <<hero, appended, attacked>>
            /\ IF idx = Len(enemies)
               THEN pc' = "render" /\ idx' = 1
               ELSE pc' = "enemies" /\ idx' = idx + 1
    /\ UNCHANGED <<stage, enemies, action, result, quit, bossActions>>

\* lines 378-394: the frame is drawn; the loop is back at line 347
Render ==
    /\ pc = "render"
    /\ pc' = "loop"
    /\ appended' = <<>>
    /\ attacked' = <<>>
    /\ UNCHANGED <<stage, hero, enemies, action, idx, result, quit, bossActions>>

\* mutant: the result tests max_hp instead of hp
ReturnValueMaxHp(h) == h.max_hp > 0

\* value returned at line 396
ReturnValue(h) == is_alive(h)

\* the loop condition fails: line 396
Return ==
    /\ pc = "loop"
    /\ ~LoopCond(hero, enemies)
    /\ pc' = "returned"
    /\ result' = ReturnValue(hero)
    /\ UNCHANGED <<stage, hero, enemies, action, idx, quit, appended, attacked, bossActions>>

NextBattle ==
    \/ Poll
    \/ HeroNormalAttack
    \/ HeroStrongAttack
    \/ HeroHeal
    \/ EnemyTurn
    \/ Render
    \/ Return


\* ------------------------------------------------------------------------
\* The interludes of main().  present_choice returns the index of the
\* clicked option, or -1 when the window is closed (lines 203-221).

Choices(n) == (0 - 1) .. (n - 1)

\* lines 454-459: the loot roll
loot(h, d) ==
    IF d < LootTenths
    THEN [h EXCEPT !.attack = @ + 2]
    ELSE [h EXCEPT !.defense = @ + 2]

EventKinds == {"wanderer", "chest", "dawn"}

BonusKinds == {"attack", "defense"}

\* random_event: event and bonus are the two random.choice results, d the
\* chest's random.random() draw, choice the value of present_choice
random_event(h, event, choice, d, bonus) ==
    IF event = "wanderer"
    THEN IF choice = 0 /\ h.hp > 5
         THEN [take_damage(h, 5) EXCEPT !.gold = @ + 10]
         ELSE h
    ELSE IF event = "chest"
    THEN IF choice = 0
         THEN IF d < ChestLuckTenths
              THEN IF bonus = "attack"
                   THEN [h EXCEPT !.attack = @ + 2]
                   ELSE [h EXCEPT !.defense = @ + 2]
              ELSE take_damage(h, 3)
         ELSE h
    ELSE IF choice = 0
         THEN [h EXCEPT !.attack = @ + 1]
         ELSE heal(h, 5)

camp(h, choice) ==
    IF choice = 0 THEN heal(h, 30) ELSE [h EXCEPT !.defense = @ + 3]

\* the shop's items (lines 276-280)
Items ==
    { [kind |-> "attack", amount |-> 2, cost |-> 10],
      [kind |-> "defense", amount |-> 2, cost |-> 12],
      [kind |-> "hp", amount |-> 10, cost |-> 15] }

\* random.sample(items, 2): two different items, in either order
Offers == {o \in [1 .. 2 -> Items] : o[1] # o[2]}

\* lines 301-308: the purchase of one item
Buy(h, item) ==
    LET paid == [h EXCEPT !.gold = @ - item.cost]
    IN  IF item.kind = "attack" THEN [paid EXCEPT !.attack = @ + item.amount]
        ELSE IF item.kind = "defense" THEN [paid EXCEPT !.defense = @ + item.amount]
        ELSE [paid EXCEPT !.max_hp = @ + item.amount, !.hp = @ + item.amount]

\* mutant: the gold check always passes
CanAffordAlways(h, item) == TRUE

\* line 300: the hero can pay for the item
CanAfford(h, item) == h.gold >= item.cost

open_shop(h, offer, choice) ==
    IF choice \in {0, 1}
    THEN IF CanAfford(h, offer[choice + 1]) THEN Buy(h, offer[choice + 1]) ELSE h
    ELSE h

upgrade(h, choice) ==
    IF choice = 0
    THEN [h EXCEPT !.max_hp = @ + 5, !.hp = @ + 5]
    ELSE [h EXCEPT !.attack = @ + 2]

\* ------------------------------------------------------------------------
\* main()

enemies_first == <<Character(30, 10, 2), Character(50, 15, 3)>>

boss == <<Character(150, 28, 10)>>

\* lines 450-452: the first encounter was lost or abandoned
EndAfterBattle1 ==
    /\ stage = "battle1"
    /\ pc = "returned"
    /\ ~result
    /\ stage' = "end"
    /\ pc' = "idle"
    /\ UNCHANGED <<hero, enemies, action, idx, result, quit, appended, attacked, bossActions>>

\* lines 450-459: the first encounter was won; the loot roll
Loot ==
    /\ stage = "battle1"
    /\ pc = "returned"
    /\ result
    /\ \E h \in {loot(hero, d) : d \in Draws} : hero' = h
    /\ stage' = "event"
    /\ pc' = "idle"
    /\ UNCHANGED <<enemies, action, idx, result, quit, appended, attacked, bossActions>>

\* line 461
RandomEvent ==
    /\ stage = "event"
    /\ \E h \in {random_event(hero, event, choice, d, bonus) :
                    event \in EventKinds, choice \in Choices(2), d \in Draws,
                    bonus \in BonusKinds} :
         hero' = h
    /\ stage' = "camp"
    /\ UNCHANGED <<enemies, pc, action, idx, result, quit, appended, attacked, bossActions>>

\* line 462
Camp ==
    /\ stage = "camp"
    /\ \E choice \in Choices(2) : hero' = camp(hero, choice)
    /\ stage' = "shop"
    /\ UNCHANGED <<enemies, pc, action, idx, result, quit, appended, attacked, bossActions>>

\* line 463, or a direct call open_shop(hero)
OpenShop ==
    /\ stage \in {"shop", "shopcall"}
    /\ \E h \in {open_shop(hero, offer, choice) : offer \in Offers, choice \in Choices(3)} :
         hero' = h
    /\ stage' = IF stage = "shop" THEN "upgrade" ELSE "end"
    /\ UNCHANGED <<enemies, pc, action, idx, result, quit, appended, attacked, bossActions>>

\* lines 464-467: the upgrade, then run_battle(hero, boss) is entered
Upgrade ==
    /\ stage = "upgrade"
    /\ \E choice \in Choices(2) : hero' = upgrade(hero, choice)
    /\ stage' = "boss"
    /\ enemies' = boss
    /\ pc' = "loop"
    /\ UNCHANGED <<action, idx, result, quit, appended, attacked, bossActions>>

\* lines 467-470: the boss encounter returned; the game ends
EndGame ==
    /\ stage = "boss"
    /\ pc = "returned"
    /\ stage' = "end"
    /\ pc' = "idle"
    /\ UNCHANGED <<hero, enemies, action, idx, result, quit, appended, attacked, bossActions>>

NextMain ==
    \/ EndAfterBattle1
    \/ Loot
    \/ RandomEvent
    \/ Camp
    \/ OpenShop
    \/ Upgrade
    \/ EndGame

\* ------------------------------------------------------------------------
\* Initial states

Classes == {Warrior, Mage, Rogue}

\* entry of run_battle (lines 344-345)
Enter(h, es, st) ==
    /\ stage = st
    /\ hero = h
    /\ enemies = es
    /\ pc = "loop"
    /\ action = None
    /\ idx = 1
    /\ result = FALSE
    /\ quit = FALSE
    /\ appended = <<>>
    /\ attacked = <<>>
    /\ bossActions = 0

\* main() after choose_hero, at the call of line 450
InitMain == \E h \in Classes : Enter(h, enemies_first, "battle1")

\* Direct calls run_battle(hero, enemies): the three classes against a target
\* whose defense is not below their attack and against the boss, the hero and
\* the enemy of the end-to-end example, two heroes against a wave of three,
\* and the Rogue against a target of defense 4.
Armoured == <<Character(3, 10, 25)>>

Example == [hero |-> NewHero("Hero", 100, 20, 5, 0), enemies |-> <<Character(30, 10, 2)>>]

Trio == <<Character(5, 9, 2), Character(8, 5, 9), Character(4, 3, 0)>>

\* a target of defense 4 for the Rogue
Guarded == <<Character(40, 12, 4)>>

Calls ==
    {[hero |-> h, enemies |-> es] : h \in Classes, es \in {Armoured, boss}}
    \cup {Example}
    \cup {[hero |-> Rogue, enemies |-> Guarded]}
    \cup {[hero |-> h, enemies |-> Trio] :
             h \in {NewHero("Hero", 6, 4, 1, 0), NewHero("Hero", 20, 6, 5, 0)}}

InitCall == \E c \in Calls : Enter(c.hero, c.enemies, "call")

\* Direct calls open_shop(hero): a Warrior whose gold pays for none, some or
\* all of the items.
ShopGold == {0, 9, 10, 11, 12, 14, 15, 20}

InitShop ==
    /\ \E g \in ShopGold : hero = [Warrior EXCEPT !.gold = g]
    /\ stage = "shopcall"
    /\ enemies = enemies_first
    /\ pc = "idle"
    /\ action = None
    /\ idx = 1
    /\ result = FALSE
    /\ quit = FALSE
    /\ appended = <<>>
    /\ attacked = <<>>
    /\ bossActions = 0

Init == InitMain \/ InitCall \/ InitShop

Next == NextBattle \/ NextMain

Spec == Init /\ [][Next]_vars


\* Direct calls only, with a hero who keeps submitting actions: every step of
\* run_battle that is possible is eventually taken.
FairSpec == InitCall /\ [][NextBattle]_vars /\ WF_vars(NextBattle)

\* ------------------------------------------------------------------------
\* Properties

AllDead(es) == \A j \in 1 .. Len(es) : es[j].hp = 0

\* the encounter is resolved: the hero is dead or all enemies are dead
Resolved == hero.hp = 0 \/ AllDead(enemies)

\* the indices of the living enemies, in the order of the list
AliveIdx(es) == SelectSeq([j \in 1 .. Len(es) |-> j], LAMBDA j : es[j].hp > 0)

IsPrefix(s, t) == Len(s) <= Len(t) /\ \A k \in 1 .. Len(s) : s[k] = t[k]

\* C1: for the hero and every enemy, 0 <= hp <= max_hp in every reachable
\* state: inside both encounters and after every interlude of the session.
C1_HpWithinBounds ==
    /\ 0 <= hero.hp /\ hero.hp <= hero.max_hp
    /\ \A j \in 1 .. Len(enemies) :
         0 <= enemies[j].hp /\ enemies[j].hp <= enemies[j].max_hp

\* a Warrior enters the boss encounter at full hp after the rest at the camp,
\* the amulet of the shop and the +5 HP upgrade have raised hp and max_hp
C1_Witness ==
    /\ stage = "boss"
    /\ hero.cls = "Warrior"
    /\ hero.max_hp = Warrior.max_hp + 15
    /\ hero.hp = hero.max_hp

\* C2: once the hero's hp is 0, no further enemy attacks in that pass (nor
\* later): the list of the enemies that attacked never grows while the hero
\* is dead.
C2_ShortCircuit ==
    [][hero.hp = 0 => Len(attacked') <= Len(attacked)]_vars

\* a wave of 3 living enemies; the first one's attack killed the hero and the
\* pass is over with no attack of the second and the third
C2_Witness ==
    /\ pc = "render"
    /\ Len(enemies) = 3
    /\ \A j \in 1 .. 3 : enemies[j].hp > 0
    /\ hero.hp = 0
    /\ attacked = <<1>>

\* C3: a hero action changes at most one enemy, the first living one of the
\* list, and nothing else ever changes an enemy during an encounter; so an
\* enemy has taken damage only if every enemy before it is dead.
C3_FirstLivingTarget ==
    /\ [](\A j \in 1 .. Len(enemies) :
            enemies[j].hp < enemies[j].max_hp =>
                \A k \in 1 .. (j - 1) : enemies[k].hp = 0)
    /\ [][InBattle =>
            \A j \in 1 .. Len(enemies) :
                enemies'[j] # enemies[j] =>
                    /\ pc = "hero"
                    /\ action \in {"attack", "strong"}
                    /\ enemies[j].hp > 0
                    /\ \A k \in 1 .. (j - 1) : enemies[k].hp = 0]_vars

\* in the first encounter the goblin is dead and the orc is wounded
C3_Witness ==
    /\ stage = "battle1"
    /\ enemies[1].hp = 0
    /\ enemies[2].hp > 0
    /\ enemies[2].hp < enemies[2].max_hp

\* C4: run_battle returns without a quit signal only when the encounter is
\* resolved, and once it is resolved run_battle resolves no hero action, runs
\* no enemy attack and changes neither the hero nor an enemy; at the top of
\* the loop its only step is the return.
C4_ResolvedIsFinal ==
    [][ /\ (InBattle /\ Resolved) =>
            /\ hero' = hero
            /\ enemies' = enemies
            /\ Len(attacked') <= Len(attacked)
            /\ pc # "hero" /\ pc' # "hero"
            /\ pc = "loop" => pc' = "returned"
        /\ (pc # "returned" /\ pc' = "returned" /\ ~quit') => Resolved ]_vars

\* the hero has just killed the last living enemy of a wave of several; the
\* enemy loop of that cycle is about to run
C4_Witness ==
    /\ pc = "enemies"
    /\ idx = 1
    /\ Len(enemies) >= 2
    /\ AllDead(enemies)
    /\ hero.hp > 0

\* C5: when run_battle has returned without a quit signal, the result is
\* True iff the hero is alive, and then all enemies are dead; it is False iff
\* the hero is dead.
C5_ResultIsSurvival ==
    (pc = "returned" /\ ~quit) =>
        /\ result = (hero.hp > 0)
        /\ result => AllDead(enemies)
        /\ ~result => hero.hp = 0

\* the session's first encounter returned True with a wounded hero
C5_Witness ==
    /\ stage = "battle1"
    /\ pc = "returned"
    /\ ~quit
    /\ result
    /\ hero.hp < hero.max_hp


\* an entry appended by the hero's own action (not a defeat entry, not the
\* entry of an enemy's attack)
IsHeroEntry(e) == e.kind \in {"crit", "miss", "heal"} \/ (e.kind = "hit" /\ e.at # 0)

HeroEntries(es) == {k \in 1 .. Len(es) : IsHeroEntry(es[k])}

\* the indices below k of the living enemies, in the order of the list
AliveBefore(es, k) == SelectSeq([j \in 1 .. (k - 1) |-> j], LAMBDA j : es[j].hp > 0)

\* the iteration in progress has resolved exactly one hero action, first
OneHeroAction ==
    /\ Cardinality(HeroEntries(appended)) = 1
    /\ IsHeroEntry(appended[1])

\* the enemy pass so far: the living enemies attack once each, in the order of
\* the list, as long as the hero is alive
PassInOrder ==
    /\ pc = "enemies" => (hero.hp > 0 /\ attacked = AliveBefore(enemies, idx))
    /\ pc = "render" =>
         /\ IsPrefix(attacked, AliveIdx(enemies))
         /\ attacked = AliveIdx(enemies) \/ hero.hp = 0

\* C6 as stated: at the end of every cycle exactly one hero action was
\* resolved and every enemy that is alive has attacked exactly once, in order.
C6_Original ==
    pc = "render" => (OneHeroAction /\ attacked = AliveIdx(enemies))

\* C6, amended: every cycle resolves exactly one hero action (`action` is
\* consumed by it, whatever the clicks of the frame were) and then one enemy
\* pass in which the living enemies attack once each, in sequence order, up to
\* and including the attack that brings the hero's hp to 0; dead enemies never
\* attack.
C6_CycleShape ==
    /\ pc = "hero" => (action # None /\ appended = <<>> /\ attacked = <<>>)
    /\ pc \in {"enemies", "render"} => OneHeroAction
    /\ pc \in {"loop", "enemies", "render"} => action = None
    /\ PassInOrder

\* the first enemy of a wave of three is dead; the second and the third have
\* attacked, in that order, and the hero lives
C6_Witness ==
    /\ pc = "render"
    /\ Len(enemies) = 3
    /\ enemies[1].hp = 0
    /\ attacked = <<2, 3>>
    /\ hero.hp > 0

\* a heal was the hero action of the iteration in progress
HealResolved == appended # <<>> /\ appended[1].kind = "heal"

\* C7 as stated: if the hero keeps submitting actions, run_battle returns.
C7_Original == <>(pc = "returned")

\* C7, amended: if the hero keeps submitting actions, run_battle returns
\* unless heal actions are resolved again and again.
C7_TerminatesUnlessHealing == <>(pc = "returned") \/ []<>HealResolved

\* a hero was defeated by the wounded boss
C7_Witness ==
    /\ pc = "returned"
    /\ ~quit
    /\ hero.hp = 0
    /\ enemies[1].max_hp = 150
    /\ enemies[1].hp < enemies[1].max_hp

\* C8: a quit signal is taken only at the top of the loop, with no hero action
\* pending; run_battle returns False at once, whatever enemies are alive, and
\* neither the hero nor an enemy changes.
C8_QuitAborts ==
    [][(quit' /\ ~quit) =>
          /\ pc = "loop"
          /\ action = None /\ appended = <<>> /\ attacked = <<>>
          /\ pc' = "returned"
          /\ result' = FALSE
          /\ hero' = hero
          /\ enemies' = enemies]_vars

\* the encounter was abandoned with a living hero and two living enemies
C8_Witness ==
    /\ pc = "returned"
    /\ quit
    /\ ~result
    /\ hero.hp > 0
    /\ Len(enemies) = 3
    /\ enemies[1].hp = 0
    /\ enemies[2].hp > 0 /\ enemies[3].hp > 0

\* the hero action of the iteration in progress was a strong attack that missed
MissResolved == appended # <<>> /\ appended[1].kind = "miss"

\* the step that resolves a strong attack that misses changes neither the hero
\* nor an enemy, appends only the miss entry and enters the enemy pass
MissStep ==
    [][(pc = "hero" /\ appended' # <<>> /\ appended'[1].kind = "miss") =>
          /\ action = "strong"
          /\ hero' = hero
          /\ enemies' = enemies
          /\ appended' = <<Entry("miss", FirstAlive(enemies), 0)>>
          /\ action' = None
          /\ pc' = "enemies" /\ idx' = 1]_vars

\* C9 as stated: after a miss every living enemy attacks the hero.
C9_Original ==
    /\ MissStep
    /\ []((pc = "render" /\ MissResolved) => attacked = AliveIdx(enemies))

\* C9, amended: a strong attack that misses changes no hp and appends a miss
\* entry, and the enemy pass of that cycle runs as after a hit: the living
\* enemies attack in sequence order until the hero's hp reaches 0.
C9_MissConsumesTurn ==
    /\ MissStep
    /\ [](MissResolved => (pc \in {"enemies", "render"} /\ PassInOrder))

\* after a miss all three enemies of the wave have attacked the hero
C9_Witness ==
    /\ pc = "render"
    /\ MissResolved
    /\ attacked = <<1, 2, 3>>
    /\ hero.hp > 0

\* a normal attack is resolved against a target whose defense is not below
\* the hero's attack
FloorAttack ==
    /\ pc = "hero"
    /\ action = "attack"
    /\ enemies[FirstAlive(enemies)].defense >= hero.attack

\* C10 as stated: such an attack deals exactly 1 damage.
C10_Original ==
    [][FloorAttack =>
          LET j == FirstAlive(enemies)
          IN  /\ appended'[1].amount = 1
              /\ enemies'[j].hp = enemies[j].hp - 1]_vars

\* C10, amended: such an attack deals exactly 1 damage, except that a Rogue's
\* critical strike deals exactly 2.
C10_FloorDamage ==
    [][FloorAttack =>
          LET j == FirstAlive(enemies)
              crit == appended'[1].kind = "crit"
              amount == IF crit THEN 2 ELSE 1
          IN  /\ crit => hero.cls = "Rogue"
              /\ appended'[1].kind \in {"hit", "crit"}
              /\ appended'[1].amount = amount
              /\ enemies'[j].hp = Max(0, enemies[j].hp - amount)]_vars

\* a Rogue's critical strike has dealt 2 to a target whose defense is not
\* below the Rogue's attack
C10_Witness ==
    /\ pc = "enemies"
    /\ hero.cls = "Rogue"
    /\ appended[1] = Entry("crit", 1, 2)
    /\ enemies[1].defense >= hero.attack


\* the index of the first living enemy, the target of a hero action
Target == CHOOSE j \in 1 .. Len(enemies) :
              enemies[j].hp > 0 /\ \A k \in 1 .. (j - 1) : enemies[k].hp = 0

\* C11: a strong attack that hits deals max(1, base - target.defense), with
\* base = floor(attack * 2.5) for a Mage and attack * 2 for every other class,
\* and the target's hp becomes max(0, hp - damage); a Mage of attack 18 deals
\* 42 to a target of defense 3.
C11_StrongHit ==
    [][(pc = "hero" /\ action = "strong" /\ appended'[1].kind # "miss") =>
          LET t == enemies[Target]
              base == IF hero.cls = "Mage"
                      THEN (hero.attack * 25) \div 10
                      ELSE hero.attack * 2
              damage == Max(1, base - t.defense)
          IN  /\ appended'[1] = Entry("hit", Target, damage)
              /\ enemies'[Target].hp = Max(0, t.hp - damage)
              /\ (hero.cls = "Mage" /\ hero.attack = 18 /\ t.defense = 3)
                     => damage = 42]_vars

\* in the first encounter a Mage of attack 18 has hit the orc (defense 3)
\* with a strong attack for 42
C11_Witness ==
    /\ stage = "battle1"
    /\ pc = "enemies"
    /\ hero.cls = "Mage" /\ hero.attack = 18
    /\ enemies[2].defense = 3
    /\ appended = <<Entry("hit", 2, 42)>>
    /\ enemies[2].hp = enemies[2].max_hp - 42

\* C12: a normal attack always hits and deals max(1, attack - defense); only a
\* Rogue's can be a critical strike, which deals exactly twice that (32 for
\* attack 20 against defense 4); an enemy's attack deals
\* max(1, attack - defense), never doubled.
C12_NormalAndEnemyAttack ==
    [][ /\ (pc = "hero" /\ action = "attack") =>
             LET t == enemies[Target]
                 damage == Max(1, hero.attack - t.defense)
                 crit == appended'[1].kind = "crit"
                 dealt == IF crit THEN 2 * damage ELSE damage
             IN  /\ appended'[1].kind \in {"hit", "crit"}
                 /\ crit => hero.cls = "Rogue"
                 /\ appended'[1] = Entry(appended'[1].kind, Target, dealt)
                 /\ enemies'[Target].hp = Max(0, t.hp - dealt)
                 /\ (crit /\ hero.attack = 20 /\ t.defense = 4) => dealt = 32
        /\ (pc = "enemies" /\ Len(attacked') > Len(attacked)) =>
             LET e == enemies[idx]
                 damage == Max(1, e.attack - hero.defense)
             IN  /\ appended' = Append(appended, Entry("hit", 0, damage))
                 /\ hero'.hp = Max(0, hero.hp - damage) ]_vars

\* a Rogue of attack 20 has dealt a critical 32 to a target of defense 4
C12_Witness ==
    /\ pc = "enemies"
    /\ hero.cls = "Rogue" /\ hero.attack = 20
    /\ enemies[1].defense = 4
    /\ appended[1] = Entry("crit", 1, 32)

\* C13: the heal action sets the hero's hp to
\* min(max_hp, hp + floor(max_hp * 0.3)) (24 for max_hp = 80) and changes
\* nothing else of the hero and no enemy; its outcome does not depend on a draw.
C13_HealAction ==
    [][(pc = "hero" /\ action = "heal") =>
          LET amount == (hero.max_hp * 30) \div 100
          IN  /\ hero' = [hero EXCEPT !.hp = Min(hero.max_hp, hero.hp + amount)]
              /\ enemies' = enemies
              /\ appended'[1] = Entry("heal", 0, amount)
              /\ hero.max_hp = 80 => amount = 24]_vars

\* a Mage (max_hp 80) at 40 hp has healed 24
C13_Witness ==
    /\ pc = "enemies"
    /\ hero.max_hp = 80
    /\ hero.hp = 64
    /\ appended = <<Entry("heal", 0, 24)>>


\* the direct call of the example: a non-Rogue hero 100/20/5 against one enemy
\* 30/10/2
InExample ==
    /\ stage = "call"
    /\ hero.cls # "Rogue"
    /\ hero.max_hp = 100 /\ hero.attack = 20 /\ hero.defense = 5
    /\ Len(enemies) = 1
    /\ enemies[1].max_hp = 30 /\ enemies[1].attack = 10 /\ enemies[1].defense = 2

\* C14: in the example, fought with normal attacks only, the first attack
\* takes the enemy from 30 to 12, the enemy then attacks once and the hero is
\* at 95, the second attack takes the enemy to 0, no enemy attacks after it,
\* and run_battle returns True with the hero at 95.
C14_Example ==
    [][InExample =>
         /\ (pc = "hero" /\ action = "attack" /\ hero.hp = 100 /\ enemies[1].hp = 30)
               => (enemies'[1].hp = 12 /\ hero'.hp = 100 /\ pc' = "enemies")
         /\ (pc = "enemies" /\ hero.hp = 100 /\ enemies[1].hp = 12)
               => (hero'.hp = 95 /\ attacked' = <<1>> /\ enemies' = enemies
                   /\ pc' = "render")
         /\ (pc \in {"render", "loop"})
               => (hero' = hero /\ enemies' = enemies)
         /\ (pc = "hero" /\ action = "attack" /\ hero.hp = 95 /\ enemies[1].hp = 12)
               => (enemies'[1].hp = 0 /\ hero'.hp = 95 /\ pc' = "enemies")
         /\ (pc = "enemies" /\ enemies[1].hp = 0)
               => (hero' = hero /\ attacked' = <<>> /\ enemies' = enemies
                   /\ pc' = "render")
         /\ (pc = "loop" /\ hero.hp = 95 /\ enemies[1].hp = 0)
               => (pc' = "returned" /\ result' = TRUE /\ ~quit')]_vars

\* the example has returned True with the enemy at 0 and the hero at 95
C14_Witness ==
    /\ InExample
    /\ pc = "returned"
    /\ ~quit
    /\ result = TRUE
    /\ hero.hp = 95
    /\ enemies[1].hp = 0

\* C15: when run_battle returns from a resolved encounter (hero dead or all
\* enemies dead), it has appended to the effects list, after the last frame and
\* before returning, a final summary entry, "Victory" or "Defeat".
C15_SummaryEntry ==
    (pc = "returned" /\ ~quit) =>
        /\ appended # <<>>
        /\ appended[Len(appended)].kind \in {"Victory", "Defeat"}

\* the number of dead enemies
Dead(es) == Cardinality({j \in 1 .. Len(es) : es[j].hp = 0})

\* the number of defeat entries of a sequence of entries
DefeatCount(s) == Cardinality({i \in 1 .. Len(s) : s[i].kind = "defeat"})

\* C16: a defeat entry is appended exactly when a hero action brings its
\* target's hp to 0: it follows that action's hit entry, precedes every
\* enemy-attack entry of the cycle, and is not appended after a heal, a miss or
\* a hit that leaves the target alive; the enemy pass appends only attack
\* entries and kills no enemy, so each step adds as many defeat entries as it
\* adds dead enemies.
C16_DefeatEntry ==
    [][ /\ pc = "hero" =>
             LET j == Target
                 killed == enemies'[j].hp = 0
             IN  /\ appended = <<>>
                 /\ Len(appended') = IF killed THEN 2 ELSE 1
                 /\ appended'[1].kind \in {"hit", "crit", "miss", "heal"}
                 /\ killed =>
                       /\ appended'[1].kind \in {"hit", "crit"}
                       /\ appended'[1].at = j
                       /\ appended'[2] = Entry("defeat", j, 0)
                 /\ Dead(enemies') = Dead(enemies) + (IF killed THEN 1 ELSE 0)
                 /\ DefeatCount(appended') = IF killed THEN 1 ELSE 0
        /\ pc = "enemies" =>
             /\ enemies' = enemies
             /\ IsPrefix(appended, appended')
             /\ \A i \in (Len(appended) + 1) .. Len(appended') :
                    appended'[i].kind = "hit" /\ appended'[i].at = 0
        /\ pc \in {"loop", "render", "returned"} =>
             /\ DefeatCount(appended') = 0
             /\ Dead(enemies') = Dead(enemies) \/ Dead(enemies') = 0 ]_vars

\* a cycle in which the hero's hit killed the target and a living enemy then
\* attacked: hit entry, defeat entry, enemy-attack entry
C16_Witness ==
    /\ pc = "render"
    /\ Len(appended) >= 3
    /\ appended[1].kind \in {"hit", "crit"}
    /\ appended[2] = Entry("defeat", appended[1].at, 0)
    /\ appended[3].at = 0
    /\ enemies[appended[1].at].hp = 0

\* C17: in an encounter the hero and all the enemies are never dead together,
\* and no enemy's hp ever increases.
C17_NotBothDead ==
    /\ [](pc # "idle" => ~(hero.hp = 0 /\ AllDead(enemies)))
    /\ [][pc # "idle" /\ pc' # "idle" /\ stage' = stage =>
             /\ Len(enemies') = Len(enemies)
             /\ \A j \in 1 .. Len(enemies) : enemies'[j].hp <= enemies[j].hp
             /\ hero'.hp < hero.hp => (pc = "enemies" /\ enemies[idx].hp > 0)]_vars

\* the hero has died in an enemy pass after killing one enemy of several
C17_Witness ==
    /\ pc = "returned"
    /\ hero.hp = 0
    /\ Len(enemies) > 1
    /\ enemies[1].hp = 0
    /\ ~AllDead(enemies)


\* the session is between the two encounters, or the boss encounter begins
Interlude == stage \in {"event", "camp", "shop", "upgrade"}

BossBegins == stage = "boss" /\ pc = "loop" /\ bossActions = 0 /\ boss = enemies

\* C18: after an encounter #1 the hero survived, the hero's hp stays above 0
\* through the loot roll, the random event, the camp, the shop and the upgrade,
\* so the hero is alive when the boss encounter begins.
C18_AliveBetweenEncounters == (Interlude \/ BossBegins) => hero.hp > 0

\* the hero after the purchase of an item, from the item table of the shop
Purchase(h, kind, amount, cost) ==
    [hp      |-> IF kind = "hp" THEN h.hp + amount ELSE h.hp,
     max_hp  |-> IF kind = "hp" THEN h.max_hp + amount ELSE h.max_hp,
     attack  |-> IF kind = "attack" THEN h.attack + amount ELSE h.attack,
     defense |-> IF kind = "defense" THEN h.defense + amount ELSE h.defense,
     gold    |-> h.gold - cost,
     cls     |-> h.cls]

\* C19: the hero's gold is never negative; a visit to the shop either leaves
\* the hero unchanged or is the purchase of one item whose cost the hero's
\* gold covers, so a purchase attempted with too little gold, or Exit, changes
\* neither gold nor hp, max_hp, attack or defense.
C19_GoldNeverNegative ==
    /\ [](hero.gold >= 0)
    /\ [][(stage = "shop" \/ stage = "shopcall") =>
             (\/ hero' = hero
              \/ \E item \in {<<"attack", 2, 10>>, <<"defense", 2, 12>>, <<"hp", 10, 15>>} :
                    (hero.gold >= item[3]
                       /\ hero' = Purchase(hero, item[1], item[2], item[3])))]_vars

\* open_shop called with 11 gold has returned after a purchase that left 1
\* gold: the shield (12) was not affordable, the sword (10) was
C19_Witness ==
    /\ stage = "end"
    /\ hero = [Warrior EXCEPT !.gold = 1, !.attack = Warrior.attack + 2]

\* C20: a choice of -1 (the window was closed) in the random event, the camp,
\* the shop or the upgrade leaves the hero's hp, max_hp, attack, defense and
\* gold unchanged.
C20_ClosedWindowNoEffect ==
    /\ stage = "event" =>
          \A event \in EventKinds, d \in Draws, bonus \in BonusKinds :
              random_event(hero, event, 0 - 1, d, bonus) = hero
    /\ stage = "camp" => camp(hero, 0 - 1) = hero
    /\ stage \in {"shop", "shopcall"} =>
          \A offer \in Offers : open_shop(hero, offer, 0 - 1) = hero
    /\ stage = "upgrade" => upgrade(hero, 0 - 1) = hero

=============================================================================
